---- MODULE Spec2Model ----
(***************************************************************************)
(* EnvTypesWebpack: the .env -> .d.ts generator (src/src/EnvTypesGenerator *)
(* .ts) and the webpack plugin that drives it (EnvTypesPlugin, whose       *)
(* source is the second half of src/tests/EnvTypesGenerator.test.ts).      *)
(*                                                                         *)
(* Text is modelled character by character: a string is a sequence of      *)
(* one-character strings, a file is None or Some(text), and "\n" is an     *)
(* ordinary character of a text.                                           *)
(***************************************************************************)
EXTENDS Integers, Sequences, FiniteSets, TLC

VARIABLES
    files,      \* candidate source files of the working directory: name -> None | Some(text)
    outFile,    \* the generated declaration file: None | Some(text)
    outDir,     \* whether the output file's directory exists
    now,        \* the wall clock, in seconds
    edits,      \* number of file-system events so far (bounded by MaxEdits)
    gen,        \* observation of the most recent generate() call
    options,    \* the configuration, resolved at construction
    pc,         \* where the host's build lifecycle stands
    watchOptions,      \* compiler.options.watchOptions: None | Some(record)
    origWatchOptions,  \* compiler.options.watchOptions as configured, before apply()
    deps,       \* compilation.fileDependencies of the current compilation
    watching,   \* the paths the host's watcher tracks (None before the first build ends)
    pending,    \* watched paths changed since the last watch iteration started
    child,      \* the generator process a hook is blocked on
    hook,       \* observation of the hook firing in progress or last finished
    builds,     \* number of builds the host has started (bounded by MaxBuilds)
    ctor,       \* new EnvTypesPlugin(arg): the argument and the error thrown, if any
    shellEnv,   \* process.env of a generator process started from a shell
    input,      \* the raw lines parseEnvFile's loop runs over
    loop,       \* parseEnvFile's loop: the next line, the entries, the comment buffer
    body        \* the interface body rendered from the entries: None | Some(text)

\* ------------------------------------------------------------- bounds

MaxClock == 1
MaxEdits == 1
MaxBuilds == 2

\* ------------------------------------------------------------ strings

None == <<>>
Some(v) == <<v>>
Val(o) == o[1]

NL == "\n"

IsSpace(c) == c \in {" ", "\t", "\r"}

RECURSIVE TrimStart(_)
TrimStart(s) ==
    IF s # <<>> /\ IsSpace(Head(s)) THEN TrimStart(Tail(s)) ELSE s

RECURSIVE TrimEnd(_)
TrimEnd(s) ==
    IF s # <<>> /\ IsSpace(s[Len(s)]) THEN TrimEnd(SubSeq(s, 1, Len(s) - 1)) ELSE s

Trim(s) == TrimEnd(TrimStart(s))

StartsWith(s, p) == Len(p) <= Len(s) /\ SubSeq(s, 1, Len(p)) = p

EndsWith(s, p) == Len(p) <= Len(s) /\ SubSeq(s, Len(s) - Len(p) + 1, Len(s)) = p

Includes(s, c) == \E i \in 1..Len(s) : s[i] = c

\* 1-based position of the first c in s at or after position i, 0 when there is none
RECURSIVE IndexFrom(_, _, _)
IndexFrom(s, c, i) ==
    IF i > Len(s) THEN 0 ELSE IF s[i] = c THEN i ELSE IndexFrom(s, c, i + 1)

\* s.indexOf(c), 1-based: 0 stands for JavaScript's -1
IndexOf(s, c) == IndexFrom(s, c, 1)

\* s.slice(k) for a 0-based k
Slice(s, k) == SubSeq(s, k + 1, Len(s))

RECURSIVE SplitFrom(_, _, _)
SplitFrom(s, c, start) ==
    LET i == IndexFrom(s, c, start) IN
    IF i = 0 THEN <<SubSeq(s, start, Len(s))>>
    ELSE <<SubSeq(s, start, i - 1)>> \o SplitFrom(s, c, i + 1)

\* s.split(c): always at least one piece
Split(s, c) == SplitFrom(s, c, 1)

\* pieces.join(sep), sep a string
RECURSIVE Join(_, _)
Join(pieces, sep) ==
    IF pieces = <<>> THEN <<>>
    ELSE IF Len(pieces) = 1 THEN pieces[1]
    ELSE pieces[1] \o sep \o Join(Tail(pieces), sep)

Digit(n) == <<"0", "1", "2", "3", "4", "5", "6", "7", "8", "9">>[n + 1]

\* n.toString().padStart(2, '0') for 0 <= n < 100
Pad2(n) == IF n < 10 THEN <<"0", Digit(n)>> ELSE <<Digit(n \div 10), Digit(n % 10)>>

\* ----------------------------------------------------- literal texts

ExportPrefix == <<"e", "x", "p", "o", "r", "t", " ">>
\* the warning sign and the dash of the first header line are written in ASCII
HeaderLine ==
    <<"/", "/", " ", "!", " ", "A", "U", "T", "O", "-", "G", "E", "N", "E", "R", "A", "T", "E", "D", " ", "F", "I", "L", "E", " ", "-", " ", "D", "O", " ", "N", "O", "T", " ", "E", "D", "I", "T">>
SourcePrefix == <<"/", "/", " ", "S", "o", "u", "r", "c", "e", ":", " ">>
CommentPrefix == <<"/", "/", " ">>
GeneratedLabel == <<"G", "e", "n", "e", "r", "a", "t", "e", "d", ":", " ">>
GeneratedMarker == <<"/", "/", " ", "G", "e", "n", "e", "r", "a", "t", "e", "d", ":">>
\* year, month, day and hour of the clock are held fixed
DateHour == <<"2", "0", "2", "4", "-", "0", "1", "-", "1", "5", "T", "1", "0", ":">>
NamespaceOpen ==
    <<"d", "e", "c", "l", "a", "r", "e", " ", "n", "a", "m", "e", "s", "p", "a", "c", "e", " ", "N", "o", "d", "e", "J", "S", " ", "{">>
InterfaceOpen ==
    <<" ", " ", "i", "n", "t", "e", "r", "f", "a", "c", "e", " ", "P", "r", "o", "c", "e", "s", "s", "E", "n", "v", " ", "{">>
InterfaceClose == <<" ", " ", "}">>
NamespaceClose == <<"}">>
ExportEnds == <<"e", "x", "p", "o", "r", "t", " ", "{", "}", ";">>
JSDocOpen == <<" ", " ", " ", " ", "/", "*", "*">>
JSDocLine == <<" ", " ", " ", " ", " ", "*", " ">>
JSDocClose == <<" ", " ", " ", " ", " ", "*", "/">>
MemberIndent == <<" ", " ", " ", " ">>
StringType == <<":", " ", "s", "t", "r", "i", "n", "g", ";">>

\* -------------------------------------------------------------- paths

DotEnv == <<".", "e", "n", "v">>
DotEnvExample == <<".", "e", "n", "v", ".", "e", "x", "a", "m", "p", "l", "e">>
OutputPath == <<"t", "y", "p", "e", "s", "/", "e", "n", "v", ".", "d", ".", "t", "s">>
Cwd == <<"/", "p">>

\* path.resolve(base, p), for paths without "." and ".." segments
Resolve(base, p) == IF StartsWith(p, <<"/">>) THEN p ELSE base \o <<"/">> \o p

CandidateNames == {DotEnv, DotEnvExample}

\* fs.existsSync(name) for a source path relative to the working directory
Exists(fs, name) == name \in DOMAIN fs /\ fs[name] # None

\* ---------------------------------------------------------- generator

\* a search that keeps the last candidate that exists
RECURSIVE FindLastEnvFile(_, _)
FindLastEnvFile(envFiles, fs) ==
    IF envFiles = <<>> THEN None
    ELSE IF Exists(fs, envFiles[Len(envFiles)]) THEN Some(envFiles[Len(envFiles)])
    ELSE FindLastEnvFile(SubSeq(envFiles, 1, Len(envFiles) - 1), fs)

\* EnvTypesGenerator.findEnvFile: None stands for the thrown "No env files found"
RECURSIVE FindEnvFile(_, _)
FindEnvFile(envFiles, fs) ==
    IF envFiles = <<>> THEN None
    ELSE IF Exists(fs, Head(envFiles)) THEN Some(Head(envFiles))
    ELSE FindEnvFile(Tail(envFiles), fs)

\* line.replace(/^#\s?/, '') for a line that starts with "#"
StripCommentMarker(line) ==
    LET r == Tail(line) IN
    IF r # <<>> /\ IsSpace(Head(r)) THEN Tail(r) ELSE r

\* a blank line that leaves the pending comments in place
BlankLineKeeps(st) == st

\* parseEnvFile's loop on an empty line; st = [entries, commentBuffer]
BlankLine(st) == [st EXCEPT !.commentBuffer = <<>>]

\* parseEnvFile's loop on a comment line
CommentLine(st, line) ==
    [st EXCEPT !.commentBuffer = Append(@, StripCommentMarker(line))]

\* a line without "=" that leaves the pending comments in place
NotDeclarationKeeps(st) == st

\* parseEnvFile's loop on a line that is no declaration
NotDeclaration(st) == [st EXCEPT !.commentBuffer = <<>>]

\* a key that runs up to the last "="
KeyBeforeLastEquals(cleaned) ==
    LET parts == Split(cleaned, "=") IN
    Trim(Join(SubSeq(parts, 1, Len(parts) - 1), <<"=">>))

\* const [left, ...rest] = cleaned.split('='); key = left.trim()
KeyOf(cleaned) == Trim(Head(Split(cleaned, "=")))

\* rest.join('=')
ValuePart(cleaned) == Join(Tail(Split(cleaned, "=")), <<"=">>)

\* the inline comment of a value part, or null
InlineComment(valuePart) ==
    LET hashIndex == IndexOf(valuePart, "#") IN
    IF hashIndex # 0 THEN Some(Trim(Slice(valuePart, hashIndex))) ELSE None

\* the inline comment put before the pending comments
InlineCommentFirst(commentBuffer, inlineComment) ==
    (IF inlineComment # None /\ Val(inlineComment) # <<>>
     THEN <<Val(inlineComment)>> ELSE <<>>) \o commentBuffer

\* [...commentBuffer, ...(inlineComment ? [inlineComment] : [])]
Comments(commentBuffer, inlineComment) ==
    commentBuffer \o
    (IF inlineComment # None /\ Val(inlineComment) # <<>>
     THEN <<Val(inlineComment)>> ELSE <<>>)

\* an entry pushed without the pending comments being dropped
PushEntryKeepingBuffer(st, entry) ==
    [entries |-> Append(st.entries, entry), commentBuffer |-> st.commentBuffer]

\* an entry that takes the place of an earlier entry with its key
PushEntryMerging(st, entry) ==
    IF \E k \in 1..Len(st.entries) : st.entries[k].key = entry.key
    THEN [entries |-> [k \in 1..Len(st.entries) |->
                          IF st.entries[k].key = entry.key THEN entry ELSE st.entries[k]],
          commentBuffer |-> <<>>]
    ELSE [entries |-> Append(st.entries, entry), commentBuffer |-> <<>>]

\* entries.push(...); commentBuffer = []
PushEntry(st, entry) ==
    [entries |-> Append(st.entries, entry), commentBuffer |-> <<>>]

\* a declaration line parsed with its export prefix left in place
DeclarationKeepingExport(st, line) ==
    LET cleaned == line
        comments == Comments(st.commentBuffer, InlineComment(ValuePart(cleaned)))
    IN  PushEntry(st,
            [key |-> KeyOf(cleaned),
             comment |-> IF Len(comments) > 0 THEN Some(Join(comments, <<NL>>)) ELSE None])

\* parseEnvFile's loop on a declaration line
Declaration(st, line) ==
    LET cleaned == IF StartsWith(line, ExportPrefix) THEN Slice(line, 7) ELSE line
        comments == Comments(st.commentBuffer, InlineComment(ValuePart(cleaned)))
    IN  PushEntry(st,
            [key |-> KeyOf(cleaned),
             comment |-> IF Len(comments) > 0 THEN Some(Join(comments, <<NL>>)) ELSE None])

\* one iteration of parseEnvFile's loop
ParseLine(st, rawLine) ==
    LET line == Trim(rawLine) IN
    IF line = <<>> THEN BlankLine(st)
    ELSE IF StartsWith(line, <<"#">>) THEN CommentLine(st, line)
    ELSE IF ~Includes(line, "=") THEN NotDeclaration(st)
    ELSE Declaration(st, line)

RECURSIVE ParseLines(_, _)
ParseLines(st, lines) ==
    IF lines = <<>> THEN st ELSE ParseLines(ParseLine(st, Head(lines)), Tail(lines))

\* EnvTypesGenerator.parseEnvFile
ParseEnvFile(content) ==
    ParseLines([entries |-> <<>>, commentBuffer |-> <<>>], Split(content, NL)).entries

\* EnvTypesGenerator.generateJSDoc
GenerateJSDoc(comment) ==
    LET ls == Split(comment, NL)
        lines == Join([i \in 1..Len(ls) |-> JSDocLine \o ls[i]], <<NL>>)
    IN JSDocOpen \o <<NL>> \o lines \o <<NL>> \o JSDocClose

\* a member that is optional whenever it has a comment
GenerateMemberMarkedBelowComment(e, disablePartialType) ==
    IF e.comment = None \/ Val(e.comment) = <<>>
    THEN MemberIndent \o e.key \o (IF disablePartialType THEN <<>> ELSE <<"?">>)
         \o StringType
    ELSE GenerateJSDoc(Val(e.comment)) \o <<NL>> \o MemberIndent \o e.key \o <<"?">>
         \o StringType

\* one element of generateInterfaceBody's map
GenerateMember(e, disablePartialType) ==
    LET member ==
            MemberIndent \o e.key \o (IF disablePartialType THEN <<>> ELSE <<"?">>)
            \o StringType
    IN IF e.comment = None \/ Val(e.comment) = <<>>
       THEN member
       ELSE GenerateJSDoc(Val(e.comment)) \o <<NL>> \o member

\* EnvTypesGenerator.generateInterfaceBody
GenerateInterfaceBody(entries, disablePartialType) ==
    Join([i \in 1..Len(entries) |-> GenerateMember(entries[i], disablePartialType)], <<NL>>)

\* EnvTypesGenerator.generateContent: the timestamp, truncated to seconds
GenerateContent(t) ==
    GeneratedLabel \o DateHour \o Pad2((t \div 60) % 60) \o <<":">> \o Pad2(t % 60)

\* EnvTypesGenerator.generateDTS
GenerateDTS(entries, sourceFile, disablePartialType, t) ==
    Join(<<HeaderLine,
           SourcePrefix \o sourceFile,
           CommentPrefix \o GenerateContent(t),
           <<>>,
           NamespaceOpen,
           InterfaceOpen,
           GenerateInterfaceBody(entries, disablePartialType),
           InterfaceClose,
           NamespaceClose,
           <<>>,
           ExportEnds,
           <<>> >>, <<NL>>)

IsMetadataLine(line) == StartsWith(line, GeneratedMarker)
NotMetadataLine(line) == ~IsMetadataLine(line)

\* a comparison that keeps the timestamp line
KeepMetadata(content) == content

\* shouldUpdate's stripMetadata
StripMetadata(content) == Join(SelectSeq(Split(content, NL), NotMetadataLine), <<NL>>)

\* a comparison made only when there is no output file
ShouldUpdateWhenMissing(out, newContent) == out = None

\* EnvTypesGenerator.shouldUpdate
ShouldUpdate(out, newContent) ==
    IF out = None THEN TRUE
    ELSE StripMetadata(Val(out)) # StripMetadata(newContent)

\* EnvTypesGenerator.ensureOutputDirectory: fs.mkdirSync fails under the fault "mkdir"
EnsureOutputDirectory(dir, fault) ==
    IF dir THEN [ok |-> TRUE, dir |-> TRUE, log |-> <<>>]
    ELSE IF fault = "mkdir" THEN [ok |-> FALSE, dir |-> FALSE, log |-> <<>>]
    ELSE [ok |-> TRUE, dir |-> TRUE, log |-> <<"Created directory">>]

Thrown(error, out, dir, log) ==
    [ok |-> FALSE, error |-> error, out |-> out, dir |-> dir, wrote |-> FALSE, log |-> log]

\* EnvTypesGenerator.generate, as the outcome of one call: what it leaves on disk
\* (out, dir), whether it wrote the output file, what it logged and what it threw.
\* fault is the I/O call the environment makes fail in this call, if any; a failed
\* fs.writeFileSync leaves the file as it was. GenerateFrom is generate() from
\* its second line on, with the source file found.
GenerateFrom(envFile, opts, fs, out, dir, t, fault) ==
    IF fault = "read" THEN Thrown("IOError", out, dir, <<>>)
    ELSE
        LET content == Val(fs[envFile])
            entries == ParseEnvFile(content)
            dts == GenerateDTS(entries, envFile, opts.disablePartialType, t)
            made == EnsureOutputDirectory(dir, fault)
        IN  IF ~ShouldUpdate(out, dts)
            THEN [ok |-> TRUE, error |-> "", out |-> out, dir |-> dir, wrote |-> FALSE,
                  log |-> <<"Types are up to date">>]
            ELSE IF ~made.ok THEN Thrown("DirectoryCreationError", out, dir, <<>>)
            ELSE IF fault = "write" THEN Thrown("IOError", out, made.dir, made.log)
            ELSE [ok |-> TRUE, error |-> "", out |-> Some(dts), dir |-> made.dir,
                  wrote |-> TRUE, log |-> made.log \o <<"Generated">>]

\* a generate() that writes a file without members when there is no source
GenerateEmptyWithoutSource(opts, fs, out, dir, t, fault) ==
    LET envFile == FindEnvFile(opts.envFiles, fs) IN
    IF envFile = None
    THEN [ok |-> TRUE, error |-> "",
          out |-> Some(GenerateDTS(<<>>, <<>>, opts.disablePartialType, t)),
          dir |-> TRUE, wrote |-> TRUE, log |-> <<"Generated">>]
    ELSE GenerateFrom(Val(envFile), opts, fs, out, dir, t, fault)

Generate(opts, fs, out, dir, t, fault) ==
    LET envFile == FindEnvFile(opts.envFiles, fs) IN
    IF envFile = None THEN Thrown("NoSourceFound", out, dir, <<>>)
    ELSE GenerateFrom(Val(envFile), opts, fs, out, dir, t, fault)

Faults == {"none", "read", "mkdir", "write"}

\* ---------------------------------------- the generator as a process

DefaultCliEnvFiles ==
    <<".", "e", "n", "v", ".", "e", "x", "a", "m", "p", "l", "e", ",", ".", "e", "n", "v">>

\* a || b for strings: an unset or empty variable takes the default
OrDefault(v, d) == IF v = None \/ Val(v) = <<>> THEN d ELSE Val(v)

\* the CLI entry point of EnvTypesGenerator.ts, run with the environment env:
\* its exit code and what it leaves on disk
GeneratorMain(env, fs, out, dir, t, fault) ==
    LET envFiles == Split(OrDefault(env.ENV_FILES, DefaultCliEnvFiles), ",")
        outputPath == env.OUTPUT_PATH
    IN  IF outputPath = None \/ Val(outputPath) = <<>>
        THEN [code |-> 1, res |-> Thrown("OUTPUT_PATH is required", out, dir, <<>>)]
        ELSE LET r == Generate([envFiles |-> envFiles, disablePartialType |-> FALSE],
                               fs, out, dir, t, fault)
             IN [code |-> IF r.ok THEN 0 ELSE 1, res |-> r]

\* ------------------------------------------------- source file contents

\* "# h" / "A=1"
TextCommented == <<"#", " ", "h", NL, "A", "=", "1">>
\* "A=1" / "" / "B=2 # p"
TextTwoKeys == <<"A", "=", "1", NL, NL, "B", "=", "2", " ", "#", " ", "p">>
\* "note": no declaration at all
TextNoKeys == <<"n", "o", "t", "e">>

EnvTexts == {TextCommented, TextTwoKeys, TextNoKeys}

\* a hand-edited output file
TextEdited == <<"/", "/", " ", "x">>

\* ------------------------------------------------------ configuration

EnvFileLists == {<<DotEnv, DotEnvExample>>, <<DotEnvExample>>}

\* compiler.context
Context == Cwd

\* EnvTypesPlugin.outputAbsolutePath
OutputAbsolutePath == Resolve(Cwd, OutputPath)

MainTs == Resolve(Cwd, <<"m", "a", "i", "n", ".", "t", "s">>)
ProdEnv == Resolve(Cwd, <<"p", "r", "o", "d", ".", "e", "n", "v">>)

\* the modules every compilation depends on
ModuleDeps == {MainTs, ProdEnv}

NodeModules == <<"n", "o", "d", "e", "_", "m", "o", "d", "u", "l", "e", "s">>
Dist == <<"d", "i", "s", "t">>

\* watchOptions.ignored as configured: absent, one pattern, or an array of patterns
Absent == [kind |-> "absent", val |-> <<>>]
Single(v) == [kind |-> "single", val |-> <<v>>]
Array(vs) == [kind |-> "array", val |-> vs]

ConfiguredWatchOptions ==
    {None,
     Some([ignored |-> Absent, aggregateTimeout |-> Some(<<"2", "0", "0">>)]),
     Some([ignored |-> Single(NodeModules), aggregateTimeout |-> None]),
     Some([ignored |-> Array(<<NodeModules, Dist>>), aggregateTimeout |-> Some(<<"2", "0", "0">>)])}

\* the source files found at start; WriteEnv and DeleteEnv reach the others
InitialFiles ==
    {[n \in CandidateNames |-> IF n = DotEnv THEN a ELSE b] :
        a \in {None, Some(TextCommented), Some(TextTwoKeys)},
        b \in {None, Some(TextNoKeys)}}

\* ------------------------------------------------------------- state

NoCall ==
    [called |-> FALSE, dirty |-> FALSE, clean |-> FALSE, noSource |-> FALSE, ok |-> FALSE,
     error |-> "", wrote |-> FALSE, before |-> None, dirBefore |-> FALSE, log |-> <<>>]

NoChild == [state |-> "none", code |-> 0]

\* no generator process was started from a shell
NoEnv == [ENV_FILES |-> None, OUTPUT_PATH |-> None]

\* what new EnvTypesPlugin(...) can be given: nothing, a string or an options
\* object, with the output path it carries (None: no outputPath)
PluginArgs ==
    {[kind |-> "undefined", outputPath |-> None],
     [kind |-> "string", outputPath |-> Some(<<>>)],
     [kind |-> "string", outputPath |-> Some(OutputPath)],
     [kind |-> "object", outputPath |-> None],
     [kind |-> "object", outputPath |-> Some(<<>>)],
     [kind |-> "object", outputPath |-> Some(OutputPath)]}

\* the plugin constructed from its options object, nothing thrown
Constructed ==
    [arg |-> [kind |-> "object", outputPath |-> Some(OutputPath)], error |-> "",
     dirFound |-> TRUE]

\* parseEnvFile not called
NoLoop == [i |-> 0, entries |-> <<>>, commentBuffer |-> <<>>]

NoHook ==
    [name |-> "none", modified |-> None, passes |-> 0, failed |-> FALSE,
     logged |-> FALSE, callbacks |-> 0, out |-> None, touched |-> FALSE,
     earlier |-> FALSE]

fsVars == <<files, outFile, outDir>>
hostVars == <<pc, watchOptions, origWatchOptions, deps, watching, child, builds>>
parseVars == <<input, loop, body>>
vars == <<files, outFile, outDir, now, edits, gen, options, pc, watchOptions,
          origWatchOptions, deps, watching, pending, child, hook, builds, ctor,
          shellEnv, input, loop, body>>

\* --------------------------------------------------- the host's watcher

\* whether the watcher's exclusion list covers a path
Ignored(path) ==
    /\ watchOptions # None
    /\ \E i \in 1..Len(Val(watchOptions).ignored.val) :
           Val(watchOptions).ignored.val[i] = path

\* a change of path on disk, as the watcher sees it
Notified(path) ==
    IF watching # None /\ path \in Val(watching) /\ ~Ignored(path)
    THEN pending \cup {path}
    ELSE pending

\* ---------------------------------------------------- the environment

Touched == [gen EXCEPT !.dirty = TRUE]
OutputTouched == [hook EXCEPT !.touched = TRUE]

\* a candidate source file is created or rewritten
WriteEnv(name, text) ==
    /\ edits < MaxEdits
    /\ files[name] # Some(text)
    /\ files' = [files EXCEPT ![name] = Some(text)]
    /\ edits' = edits + 1
    /\ gen' = Touched
    /\ pending' = Notified(Resolve(Context, name))
    /\ UNCHANGED <<outFile, outDir, now, options, hostVars, hook>>
    /\ UNCHANGED <<ctor, shellEnv, parseVars>>

\* a candidate source file is deleted
DeleteEnv(name) ==
    /\ edits < MaxEdits
    /\ files[name] # None
    /\ files' = [files EXCEPT ![name] = None]
    /\ edits' = edits + 1
    /\ gen' = Touched
    /\ pending' = Notified(Resolve(Context, name))
    /\ UNCHANGED <<outFile, outDir, now, options, hostVars, hook>>
    /\ UNCHANGED <<ctor, shellEnv, parseVars>>

\* the output file is edited by hand
EditOutput ==
    /\ edits < MaxEdits
    /\ outFile \notin {None, Some(TextEdited)}
    /\ outFile' = Some(TextEdited)
    /\ edits' = edits + 1
    /\ gen' = Touched
    /\ pending' = Notified(OutputAbsolutePath)
    /\ hook' = OutputTouched
    /\ UNCHANGED <<files, outDir, now, options, hostVars>>
    /\ UNCHANGED <<ctor, shellEnv, parseVars>>

\* the output file is deleted
DeleteOutput ==
    /\ edits < MaxEdits
    /\ outFile # None
    /\ outFile' = None
    /\ edits' = edits + 1
    /\ gen' = Touched
    /\ pending' = Notified(OutputAbsolutePath)
    /\ hook' = OutputTouched
    /\ UNCHANGED <<files, outDir, now, options, hostVars>>
    /\ UNCHANGED <<ctor, shellEnv, parseVars>>

\* the output directory is removed with what it holds
RemoveOutputDir ==
    /\ edits < MaxEdits
    /\ outDir
    /\ outDir' = FALSE
    /\ outFile' = None
    /\ edits' = edits + 1
    /\ gen' = Touched
    /\ pending' = IF outFile # None THEN Notified(OutputAbsolutePath) ELSE pending
    /\ hook' = OutputTouched
    /\ UNCHANGED <<files, now, options, hostVars>>
    /\ UNCHANGED <<ctor, shellEnv, parseVars>>

\* a second passes
Tick ==
    /\ now < MaxClock
    /\ now' = now + 1
    /\ UNCHANGED <<fsVars, edits, gen, options, hostVars, hook, pending>>
    /\ UNCHANGED <<ctor, shellEnv, parseVars>>

\* ------------------------------------------------ generate(), observed

IOErrors == {"IOError", "DirectoryCreationError"}

\* the record of a generate() call over the candidates envFiles with outcome r:
\* clean: an earlier call ran to its end without an I/O fault and no file-system
\* event came between; noSource: no candidate existed when the call was made
Observed(r, envFiles) ==
    [called |-> TRUE, dirty |-> FALSE,
     clean |-> gen.called /\ ~gen.dirty /\ gen.error \notin IOErrors,
     noSource |-> \A i \in 1..Len(envFiles) :
                     envFiles[i] \notin DOMAIN files \/ files[envFiles[i]] = None,
     ok |-> r.ok, error |-> r.error, wrote |-> r.wrote,
     before |-> outFile, dirBefore |-> outDir, log |-> r.log]

\* generator.generate() called directly on an EnvTypesGenerator built with options
GenerateCall(fault) ==
    LET r == Generate(options, files, outFile, outDir, now, fault) IN
    /\ outFile' = r.out
    /\ outDir' = r.dir
    /\ gen' = Observed(r, options.envFiles)
    /\ pending' = IF r.wrote THEN Notified(OutputAbsolutePath) ELSE pending
    /\ UNCHANGED <<files, now, edits, options, hostVars, hook>>
    /\ UNCHANGED <<ctor, shellEnv, parseVars>>

\* ------------------------------------------- the generator on its own

InitGen ==
    /\ files \in InitialFiles
    /\ outFile = None
    /\ outDir \in BOOLEAN
    /\ now = 0
    /\ edits = 0
    /\ gen = NoCall
    /\ options \in [envFiles : EnvFileLists, disablePartialType : BOOLEAN]
    /\ pc = "constructed"
    /\ watchOptions = None
    /\ origWatchOptions = None
    /\ deps = {}
    /\ watching = None
    /\ pending = {}
    /\ child = NoChild
    /\ hook = NoHook
    /\ builds = 0
    /\ ctor = Constructed
    /\ shellEnv = NoEnv
    /\ input = <<>>
    /\ loop = NoLoop
    /\ body = None

Environment ==
    \/ \E name \in CandidateNames, text \in EnvTexts : WriteEnv(name, text)
    \/ \E name \in CandidateNames : DeleteEnv(name)
    \/ EditOutput
    \/ DeleteOutput
    \/ RemoveOutputDir
    \/ Tick

NextGen ==
    \/ Environment
    \/ \E fault \in Faults : GenerateCall(fault)

SpecGen == InitGen /\ [][NextGen]_vars

\* ----------------------------------------- parseEnvFile, line by line

\* the longest input made of SourceLines
MaxLines == 3

\* "# h"
LineComment == <<"#", " ", "h">>
\* "#  k": the marker and two spaces
LineCommentSpaced == <<"#", " ", " ", "k">>
\* a line of white space
LineBlank == <<" ">>
\* "A=1"
LineKey == <<"A", "=", "1">>
\* "B=2 # p"
LineKeyInline == <<"B", "=", "2", " ", "#", " ", "p">>
\* "C=x=y"
LineKeyEquals == <<"C", "=", "x", "=", "y">>
\* "export D=4"
LineExport == <<"e", "x", "p", "o", "r", "t", " ", "D", "=", "4">>
\* "note"
LineNote == <<"n", "o", "t", "e">>
\* "#": the marker alone
LineMarker == <<"#">>

SourceLines ==
    {LineComment, LineCommentSpaced, LineBlank, LineKey, LineKeyInline, LineKeyEquals,
     LineExport, LineNote, LineMarker}

\* the input of README.md's example
ReadmeInput ==
    <<<<"#", " ", "D", "a", "t", "a", "b", "a", "s", "e", " ", "c", "o", "n", "f", "i",
        "g", "u", "r", "a", "t", "i", "o", "n">>,
      <<"D", "B", "_", "H", "O", "S", "T", "=", "l", "o", "c", "a", "l", "h", "o", "s",
        "t">>,
      <<"D", "B", "_", "P", "O", "R", "T", "=", "5", "4", "3", "2">>,
      <<>>,
      <<"#", " ", "A", "P", "I", " ", "K", "e", "y", "s">>,
      <<"A", "P", "I", "_", "K", "E", "Y", "=", "y", "o", "u", "r", "-", "a", "p", "i",
        "-", "k", "e", "y", " ", "#", " ", "P", "r", "o", "d", "u", "c", "t", "i", "o",
        "n", " ", "k", "e", "y">>>>

\* the interface body of README.md's example output
ReadmeBody ==
    <<" ", " ", " ", " ", "/", "*", "*", "\n", " ", " ", " ", " ", " ", "*", " ", "D",
      "a", "t", "a", "b", "a", "s", "e", " ", "c", "o", "n", "f", "i", "g", "u", "r",
      "a", "t", "i", "o", "n", "\n", " ", " ", " ", " ", " ", "*", "/", "\n", " ", " ",
      " ", " ", "D", "B", "_", "H", "O", "S", "T", "?", ":", " ", "s", "t", "r", "i",
      "n", "g", ";", "\n", " ", " ", " ", " ", "/", "*", "*", "\n", " ", " ", " ", " ",
      " ", "*", " ", "D", "a", "t", "a", "b", "a", "s", "e", " ", "c", "o", "n", "f",
      "i", "g", "u", "r", "a", "t", "i", "o", "n", "\n", " ", " ", " ", " ", " ", "*",
      "/", "\n", " ", " ", " ", " ", "D", "B", "_", "P", "O", "R", "T", "?", ":", " ",
      "s", "t", "r", "i", "n", "g", ";", "\n", " ", " ", " ", " ", "/", "*", "*", "\n",
      " ", " ", " ", " ", " ", "*", " ", "A", "P", "I", " ", "K", "e", "y", "s", "\n",
      " ", " ", " ", " ", " ", "*", " ", "P", "r", "o", "d", "u", "c", "t", "i", "o",
      "n", " ", "k", "e", "y", "\n", " ", " ", " ", " ", " ", "*", "/", "\n", " ", " ",
      " ", " ", "A", "P", "I", "_", "K", "E", "Y", "?", ":", " ", "s", "t", "r", "i",
      "n", "g", ";">>

\* a commented key, an empty line, a key with an inline comment
BlankGapInput ==
    <<<<"#", " ", "D", "a", "t", "a", "b", "a", "s", "e", " ", "h", "o", "s", "t">>,
      <<"D", "B", "_", "H", "O", "S", "T", "=", "l", "o", "c", "a", "l", "h", "o", "s",
        "t">>,
      <<>>,
      <<"D", "B", "_", "P", "O", "R", "T", "=", "5", "4", "3", "2", " ", "#", " ", "n",
        "o", " ", "c", "o", "m", "m", "e", "n", "t", " ", "b", "u", "f", "f", "e", "r",
        " ", "h", "e", "r", "e">>>>

\* "=value", " = x" and "export =x": one-line files with nothing before the "="
NoKeyInputs ==
    {<<<<"=", "v", "a", "l", "u", "e">>>>,
     <<<<" ", "=", " ", "x">>>>,
     <<<<"e", "x", "p", "o", "r", "t", " ", "=", "x">>>>}

\* content.split('\n') of the source files parseEnvFile is run on
Inputs ==
    UNION {[1..n -> SourceLines] : n \in 0..MaxLines}
        \cup {ReadmeInput, BlankGapInput} \cup NoKeyInputs

\* the options a generator is constructed with
GeneratorOptions ==
    [envFiles : {<<DotEnv>>}, disablePartialType : BOOLEAN, useValuesAsTypes : BOOLEAN]

InitParse ==
    /\ files = [n \in CandidateNames |-> None]
    /\ outFile = None
    /\ outDir = TRUE
    /\ now = 0
    /\ edits = 0
    /\ gen = NoCall
    /\ options \in GeneratorOptions
    /\ pc = "parse"
    /\ watchOptions = None
    /\ origWatchOptions = None
    /\ deps = {}
    /\ watching = None
    /\ pending = {}
    /\ child = NoChild
    /\ hook = NoHook
    /\ builds = 0
    /\ ctor = Constructed
    /\ shellEnv = NoEnv
    /\ input \in Inputs
    /\ loop = [i |-> 1, entries |-> <<>>, commentBuffer |-> <<>>]
    /\ body = None

runVars ==
    <<files, outFile, outDir, now, edits, gen, options, watchOptions, origWatchOptions,
      deps, watching, pending, child, hook, builds, ctor, shellEnv>>

\* one iteration of the loop of parseEnvFile
ParseStep ==
    /\ pc = "parse"
    /\ loop.i <= Len(input)
    /\ LET st == ParseLine([entries |-> loop.entries, commentBuffer |-> loop.commentBuffer],
                           input[loop.i])
       IN loop' = [i |-> loop.i + 1, entries |-> st.entries,
                   commentBuffer |-> st.commentBuffer]
    /\ UNCHANGED <<runVars, pc, input, body>>

\* parseEnvFile returns its entries and generateInterfaceBody renders them
Render ==
    /\ pc = "parse"
    /\ loop.i > Len(input)
    /\ body' = Some(GenerateInterfaceBody(loop.entries, options.disablePartialType))
    /\ pc' = "rendered"
    /\ UNCHANGED <<runVars, input, loop>>

NextParse == ParseStep \/ Render

SpecParse == InitParse /\ [][NextParse]_vars

\* --------------------------------------------------------- the plugin

\* EnvTypesPlugin.ensureOutputDirectory
PluginEnsureOutputDirectory(dir, fault) ==
    IF dir THEN [ok |-> TRUE, dir |-> TRUE]
    ELSE IF fault = "mkdir" THEN [ok |-> FALSE, dir |-> FALSE]
    ELSE [ok |-> TRUE, dir |-> TRUE]

\* the environment generateTypes gives the generator process
ProcessEnv(opts) ==
    [ENV_FILES |-> Some(Join(opts.envFiles, <<",">>)), OUTPUT_PATH |-> Some(OutputPath)]

\* a spawn that does not wait for the process
ExecAsync(waitPc, nextPc) == nextPc

\* execSync: the caller stays at waitPc until the process has exited
ExecSync(waitPc, nextPc) == waitPc

\* generateTypes without its catch block: a failure leaves the hook as an exception
Rethrown(failed, nextPc) == IF failed THEN "failed" ELSE nextPc

\* generateTypes' catch block: a failure is logged and the caller goes on to nextPc
Caught(failed, nextPc) == nextPc

\* a comparison of canonical paths instead of suffixes
HasEnvFileChangedExactly(changedFiles, envFiles) ==
    \E file \in changedFiles : \E i \in 1..Len(envFiles) : file = Resolve(Cwd, envFiles[i])

\* EnvTypesPlugin.hasEnvFileChanged
HasEnvFileChanged(changedFiles, envFiles) ==
    \E file \in changedFiles : \E i \in 1..Len(envFiles) : EndsWith(file, envFiles[i])

\* fs.existsSync of an absolute path
ExistsAt(fs, path) == \E n \in DOMAIN fs : Resolve(Cwd, n) = path /\ fs[n] # None

\* a registration that does not look whether the file exists
AddAllFileDependencies(fileDependencies, envFiles, contextPath, fs) ==
    fileDependencies \cup {Resolve(contextPath, envFiles[i]) : i \in 1..Len(envFiles)}

\* EnvTypesPlugin.addFileDependencies
AddFileDependencies(fileDependencies, envFiles, contextPath, fs) ==
    fileDependencies \cup
        {Resolve(contextPath, envFiles[i]) :
            i \in {k \in 1..Len(envFiles) : ExistsAt(fs, Resolve(contextPath, envFiles[k]))}}

\* EnvTypesPlugin.excludeFromWatch
ExcludeFromWatch(fileDependencies, out) ==
    IF out # None THEN fileDependencies \ {OutputAbsolutePath} ELSE fileDependencies

\* compiler.options.watchOptions || {}
OrEmptyOptions(wo) ==
    IF wo = None THEN [ignored |-> Absent, aggregateTimeout |-> None] ELSE Val(wo)

\* an apply() that overwrites the configured exclusions
OverwrittenWatchOptions(wo) ==
    Some([OrEmptyOptions(wo) EXCEPT !.ignored = Array(<<OutputAbsolutePath>>)])

\* apply(): the new compiler.options.watchOptions. A single configured pattern is a
\* non-empty string or a RegExp (the host's schema), hence truthy.
AppliedWatchOptions(wo) ==
    LET originalWatchOptions == OrEmptyOptions(wo)
        existingIgnored == originalWatchOptions.ignored
        ignoredArray ==
            (IF existingIgnored.kind = "array" THEN existingIgnored.val
             ELSE IF existingIgnored.kind = "single" THEN <<existingIgnored.val[1]>>
             ELSE <<>>) \o <<OutputAbsolutePath>>
    IN Some([originalWatchOptions EXCEPT !.ignored = Array(ignoredArray)])

\* plugin.apply(compiler): the watch options are rewritten and the hooks tapped
Apply ==
    /\ pc = "constructed"
    /\ watchOptions' = AppliedWatchOptions(watchOptions)
    /\ pc' = "idle"
    /\ UNCHANGED <<fsVars, now, edits, gen, options, origWatchOptions, deps, watching,
                   pending, child, hook, builds>>
    /\ UNCHANGED <<ctor, shellEnv, parseVars>>

\* the observation of a hook firing that begins: modified is watchRun's changed-file
\* set, out the output file as the firing finds it, touched whether someone else
\* has changed the output file since, earlier whether the hook fired just before
\* in the same iteration made a generation pass that succeeded
Firing(name, modified) ==
    [name |-> name, modified |-> modified, passes |-> 0, failed |-> FALSE,
     logged |-> FALSE, callbacks |-> 0, out |-> outFile, touched |-> FALSE,
     earlier |-> name = "beforeCompile" /\ hook.name = "watchRun" /\ hook.passes = 1
                 /\ ~hook.failed]

\* EnvTypesPlugin.generateTypes up to the point where execSync blocks, called in the
\* firing h; the hook goes on at nextPc once generateTypes has returned
GenerateTypes(h, waitPc, nextPc, fault) ==
    LET made == PluginEnsureOutputDirectory(outDir, fault) IN
    IF made.ok
    THEN /\ outDir' = made.dir
         /\ gen' = IF made.dir # outDir THEN Touched ELSE gen
         /\ child' = [state |-> "running", code |-> 0]
         /\ pc' = ExecSync(waitPc, nextPc)
         /\ hook' = [h EXCEPT !.passes = @ + 1,
                              !.callbacks = IF pc' = "compile" THEN 1 ELSE 0]
    ELSE /\ pc' = Caught(TRUE, nextPc)
         /\ hook' = [h EXCEPT !.passes = @ + 1, !.failed = TRUE, !.logged = TRUE,
                              !.callbacks = IF pc' = "compile" THEN 1 ELSE 0]
         /\ UNCHANGED <<outDir, gen, child>>

\* generateTypes from where execSync returns or throws
GenerateTypesReturn(nextPc) ==
    /\ child.state = "exited"
    /\ pc' = Caught(child.code # 0, nextPc)
    /\ hook' = [hook EXCEPT !.failed = child.code # 0, !.logged = child.code # 0,
                            !.callbacks = IF pc' = "compile" THEN @ + 1 ELSE @]
    /\ child' = NoChild

\* the host starts a watch iteration and fires watchRun; compiler.modifiedFiles is
\* undefined in the first iteration and the set of changed paths afterwards
WatchRunTap(fault) ==
    LET modified == IF watching = None THEN None ELSE Some(pending)
        h == Firing("watchRun", modified)
    IN  /\ pc = "idle"
        /\ builds < MaxBuilds
        /\ builds' = builds + 1
        /\ pending' = {}
        /\ IF modified # None /\ HasEnvFileChanged(Val(modified), options.envFiles)
           THEN GenerateTypes(h, "watchRunWait", "beforeCompile", fault)
           ELSE /\ pc' = "beforeCompile"
                /\ hook' = h
                /\ UNCHANGED <<outDir, gen, child>>
        /\ UNCHANGED <<files, outFile, now, edits, options, watchOptions,
                       origWatchOptions, deps, watching>>
        /\ UNCHANGED <<ctor, shellEnv, parseVars>>

WatchRunReturn ==
    /\ pc = "watchRunWait"
    /\ GenerateTypesReturn("beforeCompile")
    /\ UNCHANGED <<fsVars, now, edits, gen, options, watchOptions, origWatchOptions,
                   deps, watching, pending, builds>>
    /\ UNCHANGED <<ctor, shellEnv, parseVars>>

\* the host fires beforeCompile: generateTypes(), then callback()
BeforeCompileTap(fault) ==
    /\ pc = "beforeCompile"
    /\ GenerateTypes(Firing("beforeCompile", None), "beforeCompileWait", "compile", fault)
    /\ UNCHANGED <<files, outFile, now, edits, options, watchOptions, origWatchOptions,
                   deps, watching, pending, builds>>
    /\ UNCHANGED <<ctor, shellEnv, parseVars>>

BeforeCompileReturn ==
    /\ pc = "beforeCompileWait"
    /\ GenerateTypesReturn("compile")
    /\ UNCHANGED <<fsVars, now, edits, gen, options, watchOptions, origWatchOptions,
                   deps, watching, pending, builds>>
    /\ UNCHANGED <<ctor, shellEnv, parseVars>>

ProcessFaults == Faults \cup {"script"}

\* the generator process runs to its end; under the fault "script" node cannot
\* run the generator script at all
ChildExit(fault) ==
    /\ child.state = "running"
    /\ IF fault = "script"
       THEN /\ child' = [state |-> "exited", code |-> 1]
            /\ UNCHANGED <<outFile, outDir, gen, pending>>
       ELSE LET m == GeneratorMain(ProcessEnv(options), files, outFile, outDir, now, fault)
            IN  /\ child' = [state |-> "exited", code |-> m.code]
                /\ outFile' = m.res.out
                /\ outDir' = m.res.dir
                /\ gen' = Observed(m.res, options.envFiles)
                /\ pending' = IF m.res.wrote THEN Notified(OutputAbsolutePath) ELSE pending
    /\ UNCHANGED <<files, now, edits, options, pc, watchOptions, origWatchOptions,
                   deps, watching, hook, builds>>
    /\ UNCHANGED <<ctor, shellEnv, parseVars>>

\* the host builds the module graph of a new compilation
Compile(more) ==
    /\ pc = "compile"
    /\ deps' = ModuleDeps \cup more
    /\ pc' = "processAssets"
    /\ UNCHANGED <<fsVars, now, edits, gen, options, watchOptions, origWatchOptions,
                   watching, pending, child, hook, builds>>
    /\ UNCHANGED <<ctor, shellEnv, parseVars>>

\* the processAssets tap
ProcessAssetsTap ==
    /\ pc = "processAssets"
    /\ deps' = ExcludeFromWatch(
                   AddFileDependencies(deps, options.envFiles, Context, files), outFile)
    /\ pc' = "sealed"
    /\ UNCHANGED <<fsVars, now, edits, gen, options, watchOptions, origWatchOptions,
                   watching, pending, child, hook, builds>>
    /\ UNCHANGED <<ctor, shellEnv, parseVars>>

\* the host adds what the sealed compilation depends on
SummarizeDependencies(more) ==
    /\ pc = "sealed"
    /\ deps' = deps \cup more
    /\ pc' = "afterCompile"
    /\ UNCHANGED <<fsVars, now, edits, gen, options, watchOptions, origWatchOptions,
                   watching, pending, child, hook, builds>>
    /\ UNCHANGED <<ctor, shellEnv, parseVars>>

\* the afterCompile tap
AfterCompileTap ==
    /\ pc = "afterCompile"
    /\ deps' = ExcludeFromWatch(deps, outFile)
    /\ pc' = "done"
    /\ UNCHANGED <<fsVars, now, edits, gen, options, watchOptions, origWatchOptions,
                   watching, pending, child, hook, builds>>
    /\ UNCHANGED <<ctor, shellEnv, parseVars>>

\* the build is over: the watcher tracks the compilation's dependencies
Done ==
    /\ pc = "done"
    /\ watching' = Some(deps)
    /\ pc' = "idle"
    /\ UNCHANGED <<fsVars, now, edits, gen, options, watchOptions, origWatchOptions,
                   deps, pending, child, hook, builds>>
    /\ UNCHANGED <<ctor, shellEnv, parseVars>>

\* a module of the project is edited
EditModule(path) ==
    /\ edits < MaxEdits
    /\ edits' = edits + 1
    /\ pending' = Notified(path)
    /\ UNCHANGED <<fsVars, now, gen, options, hostVars, hook>>
    /\ UNCHANGED <<ctor, shellEnv, parseVars>>

\* ------------------------------------------------ the plugin in its host

HostInitialFiles ==
    {f \in InitialFiles : f[DotEnv] # Some(TextTwoKeys)}

Init ==
    /\ files \in HostInitialFiles
    /\ outFile = None
    /\ outDir = TRUE
    /\ now = 0
    /\ edits = 0
    /\ gen = NoCall
    /\ options \in [envFiles : EnvFileLists, disablePartialType : {FALSE}]
    /\ pc = "constructed"
    /\ watchOptions \in ConfiguredWatchOptions
    /\ origWatchOptions = watchOptions
    /\ deps = {}
    /\ watching = None
    /\ pending = {}
    /\ child = NoChild
    /\ hook = NoHook
    /\ builds = 0
    /\ ctor = Constructed
    /\ shellEnv = NoEnv
    /\ input = <<>>
    /\ loop = NoLoop
    /\ body = None

HostEnvironment ==
    \/ \E name \in CandidateNames : WriteEnv(name, TextTwoKeys)
    \/ \E name \in CandidateNames : DeleteEnv(name)
    \/ EditOutput
    \/ DeleteOutput
    \/ RemoveOutputDir
    \/ \E path \in ModuleDeps : EditModule(path)

Next ==
    \/ HostEnvironment
    \/ Apply
    \/ \E fault \in Faults : WatchRunTap(fault)
    \/ WatchRunReturn
    \/ \E fault \in Faults : BeforeCompileTap(fault)
    \/ BeforeCompileReturn
    \/ \E fault \in ProcessFaults : ChildExit(fault)
    \/ \E more \in SUBSET {OutputAbsolutePath} : Compile(more)
    \/ ProcessAssetsTap
    \/ \E more \in SUBSET {OutputAbsolutePath} : SummarizeDependencies(more)
    \/ AfterCompileTap
    \/ Done

Spec == Init /\ [][Next]_vars

\* ------------------------------------------------ the plugin constructed

\* a constructor that falls back to a default output path
NewPluginWithDefaultPath(arg, dir, fault) ==
    LET made == PluginEnsureOutputDirectory(dir, fault) IN
    IF made.ok THEN [error |-> "", dir |-> made.dir]
    ELSE [error |-> "DirectoryCreationError", dir |-> dir]

\* new EnvTypesPlugin(arg): the error it throws ("" if none) and the output
\* directory it leaves
NewPlugin(arg, dir, fault) ==
    IF arg.kind = "undefined" \/ arg.outputPath = None \/ Val(arg.outputPath) = <<>>
    THEN [error |-> "ConfigError", dir |-> dir]
    ELSE LET made == PluginEnsureOutputDirectory(dir, fault) IN
         IF made.ok THEN [error |-> "", dir |-> made.dir]
         ELSE [error |-> "DirectoryCreationError", dir |-> dir]

\* the configuration evaluates new EnvTypesPlugin(ctor.arg); an exception leaves
\* the configuration without a plugin and without a build
Construct(fault) ==
    LET r == NewPlugin(ctor.arg, outDir, fault) IN
    /\ pc = "new"
    /\ ctor' = [ctor EXCEPT !.error = r.error, !.dirFound = outDir]
    /\ outDir' = r.dir
    /\ pc' = IF r.error = "" THEN "constructed" ELSE "threw"
    /\ UNCHANGED <<files, outFile, now, edits, gen, options, watchOptions,
                   origWatchOptions, deps, watching, pending, child, hook, builds,
                   shellEnv, parseVars>>

InitNew ==
    /\ files \in HostInitialFiles
    /\ outFile = None
    /\ outDir \in BOOLEAN
    /\ now = 0
    /\ edits = 0
    /\ gen = NoCall
    /\ options \in [envFiles : EnvFileLists, disablePartialType : {FALSE}]
    /\ pc = "new"
    /\ watchOptions \in ConfiguredWatchOptions
    /\ origWatchOptions = watchOptions
    /\ deps = {}
    /\ watching = None
    /\ pending = {}
    /\ child = NoChild
    /\ hook = NoHook
    /\ builds = 0
    /\ ctor \in [arg : PluginArgs, error : {""}, dirFound : {outDir}]
    /\ shellEnv = NoEnv
    /\ input = <<>>
    /\ loop = NoLoop
    /\ body = None

NextNew ==
    \/ \E fault \in {"none", "mkdir"} : Construct(fault)
    \/ Apply

SpecNew == InitNew /\ [][NextNew]_vars

\* ------------------------- the generator given every declared option

\* EnvTypesGeneratorOptions as the declaration file has it, for one candidate list
DeclaredOptions ==
    [envFiles : {<<DotEnv, DotEnvExample>>}, disablePartialType : {FALSE},
     silent : BOOLEAN, addExportEnds : BOOLEAN]

InitDeclared ==
    /\ files \in {f \in InitialFiles : f[DotEnv] # None /\ f[DotEnvExample] = None}
    /\ outFile = None
    /\ outDir \in BOOLEAN
    /\ now = 0
    /\ edits = 0
    /\ gen = NoCall
    /\ options \in DeclaredOptions
    /\ pc = "constructed"
    /\ watchOptions = None
    /\ origWatchOptions = None
    /\ deps = {}
    /\ watching = None
    /\ pending = {}
    /\ child = NoChild
    /\ hook = NoHook
    /\ builds = 0
    /\ ctor = Constructed
    /\ shellEnv = NoEnv
    /\ input = <<>>
    /\ loop = NoLoop
    /\ body = None

SpecDeclared == InitDeclared /\ [][NextGen]_vars

\* ------------------------------ the generator started from a shell

\* one path that has a comma in it: ".env,.env.example"
CommaPath == Join(<<DotEnv, DotEnvExample>>, <<",">>)

\* process.env as a shell can set it: each variable unset, empty or set
ShellEnvs ==
    [ENV_FILES : {None, Some(<<>>), Some(DotEnv)},
     OUTPUT_PATH : {None, Some(<<>>), Some(OutputPath)}]

\* the candidates the CLI entry point hands to the generator
MainEnvFiles == Split(OrDefault(shellEnv.ENV_FILES, DefaultCliEnvFiles), ",")

\* node EnvTypesGenerator.js runs to its end; gen records the run, its error being
\* the message the process leaves on its error stream
Main(fault) ==
    LET m == GeneratorMain(shellEnv, files, outFile, outDir, now, fault) IN
    /\ child.state = "running"
    /\ child' = [state |-> "exited", code |-> m.code]
    /\ outFile' = m.res.out
    /\ outDir' = m.res.dir
    /\ gen' = Observed(m.res, MainEnvFiles)
    /\ UNCHANGED <<files, now, edits, options, pc, watchOptions, origWatchOptions,
                   deps, watching, pending, hook, builds>>
    /\ UNCHANGED <<ctor, shellEnv, parseVars>>

\* the shell starts the generator again
Start ==
    /\ child.state = "exited"
    /\ child' = [state |-> "running", code |-> 0]
    /\ UNCHANGED <<fsVars, now, edits, gen, options, pc, watchOptions, origWatchOptions,
                   deps, watching, pending, hook, builds>>
    /\ UNCHANGED <<ctor, shellEnv, parseVars>>

InitMain ==
    /\ files \in HostInitialFiles
    /\ outFile = None
    /\ outDir = TRUE
    /\ now = 0
    /\ edits = 0
    /\ gen = NoCall
    /\ options \in [envFiles : {<<DotEnv, DotEnvExample>>}, disablePartialType : {FALSE}]
    /\ pc = "constructed"
    /\ watchOptions = None
    /\ origWatchOptions = None
    /\ deps = {}
    /\ watching = None
    /\ pending = {}
    /\ child = [state |-> "running", code |-> 0]
    /\ hook = NoHook
    /\ builds = 0
    /\ ctor = Constructed
    /\ shellEnv \in ShellEnvs
    /\ input = <<>>
    /\ loop = NoLoop
    /\ body = None

NextMain ==
    \/ Environment
    \/ \E fault \in Faults : Main(fault)
    \/ Start

SpecMain == InitMain /\ [][NextMain]_vars

\* ------------------------------------- one generation pass of the plugin

\* options.envFiles as a configuration can give it: the plugin's default, one path,
\* no path, and one path with a comma in it
PassLists == EnvFileLists \cup {<<>>, <<CommaPath>>}

InitPass ==
    /\ files \in HostInitialFiles
    /\ outFile = None
    /\ outDir = TRUE
    /\ now = 0
    /\ edits = 0
    /\ gen = NoCall
    /\ options \in [envFiles : PassLists, disablePartialType : {FALSE}]
    /\ pc = "constructed"
    /\ watchOptions = None
    /\ origWatchOptions = None
    /\ deps = {}
    /\ watching = None
    /\ pending = {}
    /\ child = NoChild
    /\ hook = NoHook
    /\ builds = 0
    /\ ctor = Constructed
    /\ shellEnv = NoEnv
    /\ input = <<>>
    /\ loop = NoLoop
    /\ body = None

\* the first build up to the compilation
NextPass ==
    \/ HostEnvironment
    \/ Apply
    \/ WatchRunTap("none")
    \/ BeforeCompileTap("none")
    \/ ChildExit("none")
    \/ BeforeCompileReturn

SpecPass == InitPass /\ [][NextPass]_vars

\* ------------------------------------------------------- the generator

\* what generate() would render now from the source it finds
FreshArtifact ==
    LET envFile == Val(FindEnvFile(options.envFiles, files)) IN
    GenerateDTS(ParseEnvFile(Val(files[envFile])), envFile, options.disablePartialType, now)

\* C1: when generate() is called again after a call that ran to its end, with no
\* file-system event in between, the second call does not write and the output
\* file is byte for byte what the first call left, whatever time has passed.
SecondGenerateWritesNothing ==
    (gen.called /\ gen.clean /\ ~gen.dirty) => (~gen.wrote /\ outFile = gen.before)

\* a second call that found an artifact whose timestamp line is out of date
SecondGenerateAfterClockMoved ==
    /\ gen.called /\ gen.clean /\ ~gen.dirty /\ gen.ok
    /\ outFile # None
    /\ FindEnvFile(options.envFiles, files) # None
    /\ Val(outFile) # FreshArtifact
    /\ StripMetadata(Val(outFile)) = StripMetadata(FreshArtifact)

\* C10: a generate() called when no configured candidate exists fails with the
\* no-source error and touches nothing: the output file, present or not, and the
\* output directory, present or not, are as they were.
NoSourceWritesNothing ==
    (gen.called /\ gen.noSource /\ ~gen.dirty) =>
        /\ ~gen.ok
        /\ gen.error = "NoSourceFound"
        /\ ~gen.wrote
        /\ outFile = gen.before
        /\ outDir = gen.dirBefore

\* a call without any source that found an output file from an earlier call
NoSourceWithExistingOutput ==
    /\ gen.called /\ gen.noSource /\ ~gen.dirty
    /\ gen.before # None
    /\ outFile = gen.before

\* ---------------------------------------------------------- the plugin

BuildPcs == {"compile", "processAssets", "sealed", "afterCompile", "done"}

\* C3: in every firing of beforeCompile generateTypes is called once, callback()
\* is called once and only when the generator process is over, and the host does
\* not compile while a generator process runs.
BeforeCompileBlocks ==
    /\ hook.passes <= 1
    /\ hook.callbacks <= 1
    /\ child.state = "running" => pc \in {"watchRunWait", "beforeCompileWait"}
    /\ pc = "beforeCompileWait" => (hook.passes = 1 /\ hook.callbacks = 0)
    /\ pc \in BuildPcs =>
           /\ hook.name = "beforeCompile"
           /\ hook.passes = 1
           /\ hook.callbacks = 1
           /\ child.state = "none"

\* the host compiles after a pass that wrote the artifact
CompileAfterGeneration ==
    /\ pc = "compile"
    /\ hook.name = "beforeCompile" /\ hook.callbacks = 1
    /\ gen.called /\ gen.wrote /\ ~gen.dirty
    /\ outFile # None

\* C4: a generation that fails in beforeCompile is logged, callback() is called all
\* the same and the host goes on to compile; the output file is what the firing
\* found unless someone else has changed it since.
BeforeCompileFailureSwallowed ==
    /\ pc # "failed"
    /\ (hook.name = "beforeCompile" /\ hook.failed) =>
           /\ hook.logged
           /\ hook.callbacks = 1
           /\ pc \in BuildPcs \cup {"idle"}
           /\ ~hook.touched => outFile = hook.out

\* the host compiles after a failed pass that found an output file
CompileAfterFailedGeneration ==
    /\ pc = "compile"
    /\ hook.name = "beforeCompile" /\ hook.failed
    /\ ~hook.touched
    /\ hook.out # None

\* C5 as stated: a failure in beforeCompile is swallowed, one in watchRun leaves the
\* hook as an exception.
WatchRunFailurePropagates ==
    /\ (hook.name = "beforeCompile" /\ hook.failed) => pc # "failed"
    /\ (hook.name = "watchRun" /\ hook.failed) => pc = "failed"

\* C5: a generation that fails in watchRun is caught and logged in generateTypes
\* as it is in beforeCompile: watchRun returns and the host fires beforeCompile.
WatchRunFailureSwallowed ==
    (hook.name = "watchRun" /\ hook.failed) => (hook.logged /\ pc = "beforeCompile")

\* watchRun has returned after a pass that failed
WatchRunReturnedAfterFailure ==
    /\ hook.name = "watchRun" /\ hook.failed /\ hook.passes = 1
    /\ pc = "beforeCompile"

\* e is what f ends with
SuffixOf(e, f) == \E k \in 0..Len(f) : [i \in 1..(Len(f) - k) |-> f[k + i]] = e

\* C6: a firing of watchRun calls generateTypes, once, exactly when
\* compiler.modifiedFiles is there and one of its paths ends with one of the
\* configured candidates; otherwise it calls nothing.
WatchRunGeneratesOnSuffix ==
    hook.name = "watchRun" =>
        /\ hook.passes \in {0, 1}
        /\ hook.passes = 1 <=>
               /\ hook.modified # None
               /\ \E f \in Val(hook.modified) : \E i \in 1..Len(options.envFiles) :
                      SuffixOf(options.envFiles[i], f)

\* a pass started by a changed file that is no candidate but ends like one
WatchRunOnLookalike ==
    /\ hook.name = "watchRun" /\ hook.passes = 1
    /\ hook.modified = Some({ProdEnv})

\* the exclusion entries configured before apply(), in their order
ConfiguredIgnored ==
    IF origWatchOptions = None THEN <<>> ELSE Val(origWatchOptions).ignored.val

\* the other watch options configured before apply()
ConfiguredAggregateTimeout ==
    IF origWatchOptions = None THEN None ELSE Val(origWatchOptions).aggregateTimeout

\* C7: after apply() watchOptions.ignored is an array holding the entries that were
\* configured, as an array, a single pattern or not at all, in their order, and
\* the output's absolute path; aggregateTimeout is what it was.
ApplyKeepsConfiguredIgnored ==
    pc # "constructed" =>
        /\ watchOptions # None
        /\ Val(watchOptions).ignored.kind = "array"
        /\ Val(watchOptions).ignored.val = ConfiguredIgnored \o <<OutputAbsolutePath>>
        /\ Val(watchOptions).aggregateTimeout = ConfiguredAggregateTimeout

\* apply() has run on a compiler configured with two patterns and a timeout
AppliedToConfiguredArray ==
    /\ pc = "idle"
    /\ origWatchOptions # None
    /\ Val(origWatchOptions).ignored = Array(<<NodeModules, Dist>>)
    /\ Val(origWatchOptions).aggregateTimeout # None
    /\ Ignored(OutputAbsolutePath)

\* C8 as stated: once the processAssets tap has run, and once the afterCompile tap
\* has run, the output path is not among the compilation's file dependencies,
\* whether the output file exists or not.
OutputNeverAmongDependencies ==
    pc \in {"sealed", "done"} => OutputAbsolutePath \notin deps

\* the configured candidates, resolved against the compiler's context
CandidatePaths == {Resolve(Context, options.envFiles[i]) : i \in 1..Len(options.envFiles)}

\* the configured candidates that exist
ExistingCandidatePaths == {path \in CandidatePaths : ExistsAt(files, path)}

\* C9 as stated: the processAssets tap and the afterCompile tap each leave every
\* existing candidate among the compilation's file dependencies.
BothTapsRegisterCandidates ==
    [][((pc = "processAssets" /\ pc' = "sealed") \/ (pc = "afterCompile" /\ pc' = "done"))
           => ExistingCandidatePaths \subseteq deps']_vars

\* C9: the processAssets tap leaves every existing candidate among the file
\* dependencies and adds no candidate that does not exist; the afterCompile tap
\* adds nothing at all.
OnlyProcessAssetsRegistersCandidates ==
    [][/\ (pc = "processAssets" /\ pc' = "sealed") =>
              /\ ExistingCandidatePaths \subseteq deps'
              /\ (deps' \ deps) \subseteq ExistingCandidatePaths
       /\ (pc = "afterCompile" /\ pc' = "done") => deps' \subseteq deps]_vars

\* the processAssets tap has registered the candidate that exists and not the other
ExistingCandidateRegistered ==
    /\ pc = "sealed"
    /\ files[DotEnv] # None /\ files[DotEnvExample] = None
    /\ Len(options.envFiles) = 2
    /\ Resolve(Context, DotEnv) \in deps
    /\ Resolve(Context, DotEnvExample) \notin deps

\* C2 as stated, short of its last part: from apply() on the output path is in the
\* watcher's exclusion list, is not among the dependencies the watcher tracks and
\* is never reported to a watch iteration as changed.
OutputExcludedAndUntracked ==
    pc # "constructed" =>
        /\ Ignored(OutputAbsolutePath)
        /\ OutputAbsolutePath \notin pending
        /\ watching # None => OutputAbsolutePath \notin Val(watching)

\* ------------------------------------------- the generator, continued

LinesOf(text) == Split(text, NL)

\* the first of the configured candidates that exists
FirstExisting ==
    LET there == {i \in 1..Len(options.envFiles) :
                     /\ options.envFiles[i] \in DOMAIN files
                     /\ files[options.envFiles[i]] # None}
    IN  IF there = {} THEN None
        ELSE Some(options.envFiles[CHOOSE i \in there : \A j \in there : i <= j])

\* a member line of a rendered interface: four spaces, then the key
IsMemberLine(line) ==
    /\ StartsWith(line, MemberIndent)
    /\ Len(line) > Len(MemberIndent)
    /\ line[Len(MemberIndent) + 1] \notin {" ", "/"}

\* the key a member line declares
MemberKey(line) ==
    LET text == SubSeq(line, Len(MemberIndent) + 1, Len(line))
        ends == {i \in 1..Len(text) : text[i] \in {"?", ":"}}
    IN  SubSeq(text, 1, (CHOOSE i \in ends : \A j \in ends : i <= j) - 1)

\* the keys a rendered text declares, in order
MemberKeys(text) ==
    LET members == SelectSeq(LinesOf(text), IsMemberLine) IN
    [k \in 1..Len(members) |-> MemberKey(members[k])]

\* the keys of a source text, in order
SourceKeys(content) ==
    LET entries == ParseEnvFile(content) IN [k \in 1..Len(entries) |-> entries[k].key]

\* C11: after a generate() that ran to its end the artifact's source line names
\* the first configured candidate that exists and its members are that file's
\* keys: a missing earlier candidate is skipped and a later one adds nothing.
FirstExistingCandidateIsTheSource ==
    (gen.called /\ gen.ok /\ ~gen.dirty) =>
        /\ FirstExisting # None
        /\ outFile # None
        /\ LinesOf(Val(outFile))[2] = SourcePrefix \o Val(FirstExisting)
        /\ MemberKeys(Val(outFile)) = SourceKeys(Val(files[Val(FirstExisting)]))

\* of two candidates only the second exists and the artifact written is made of it
SecondCandidateIsTheSource ==
    /\ gen.called /\ gen.wrote /\ ~gen.dirty
    /\ options.envFiles = <<DotEnv, DotEnvExample>>
    /\ files[DotEnv] = None
    /\ files[DotEnvExample] = Some(TextTwoKeys)
    /\ Len(MemberKeys(Val(outFile))) = 2

\* a text without its timestamp lines
WithoutTimestamp(text) ==
    SelectSeq(LinesOf(text), LAMBDA line : ~StartsWith(line, GeneratedMarker))

\* C12: a generate() that ran to its end wrote the output file exactly if there
\* was none or the one there differed, timestamp line aside, from the artifact
\* rendered from the source.
WritesExactlyOnDifference ==
    (gen.called /\ gen.ok /\ ~gen.dirty) =>
        (gen.wrote <=>
            \/ gen.before = None
            \/ WithoutTimestamp(Val(gen.before)) # WithoutTimestamp(FreshArtifact))

\* an artifact of an earlier call is replaced because the source has other keys now
RewrittenOnOtherMembers ==
    /\ gen.called /\ gen.wrote /\ ~gen.dirty
    /\ gen.before # None
    /\ StartsWith(Val(gen.before), HeaderLine)
    /\ LinesOf(Val(gen.before))[2] = LinesOf(Val(outFile))[2]
    /\ MemberKeys(Val(gen.before)) # MemberKeys(Val(outFile))

\* ---------------------------------------------- parseEnvFile's entries

\* what a raw line is to parseEnvFile
Kind(raw) ==
    LET text == Trim(raw) IN
    IF text = <<>> THEN "blank"
    ELSE IF text[1] = "#" THEN "comment"
    ELSE IF \E i \in 1..Len(text) : text[i] = "=" THEN "declaration"
    ELSE "other"

\* the lines the loop has processed
Processed == loop.i - 1

\* the declaration lines processed so far, in order
DeclarationLines ==
    SelectSeq([j \in 1..Processed |-> j], LAMBDA j : Kind(input[j]) = "declaration")

\* the text of a comment line: the marker and at most one space after it dropped
CommentText(raw) ==
    LET text == Trim(raw) IN
    IF Len(text) >= 2 /\ IsSpace(text[2]) THEN SubSeq(text, 3, Len(text))
    ELSE SubSeq(text, 2, Len(text))

\* the comment lines directly above line j, in order
CommentsAbove(j) ==
    LET first == CHOOSE k \in 1..j :
                     /\ \A n \in k..(j - 1) : Kind(input[n]) = "comment"
                     /\ \A h \in 1..(k - 1) :
                            \E n \in h..(j - 1) : Kind(input[n]) # "comment"
    IN  [n \in 1..(j - first) |-> CommentText(input[first + n - 1])]

\* the inline comment of a declaration line: none or one line
InlineLines(raw) ==
    LET text == Trim(raw)
        eq == CHOOSE i \in 1..Len(text) : text[i] = "=" /\ \A h \in 1..(i - 1) : text[h] # "="
        hashes == {i \in (eq + 1)..Len(text) : text[i] = "#"}
        inline == Trim(SubSeq(text, (CHOOSE i \in hashes : \A h \in hashes : i <= h) + 1,
                              Len(text)))
    IN  IF hashes = {} THEN <<>> ELSE IF inline = <<>> THEN <<>> ELSE <<inline>>

\* the lines of an entry's comment
EntryCommentLines(e) == IF e.comment = None THEN <<>> ELSE Split(Val(e.comment), NL)

\* the lines of the rendered body, and where its member lines are
BodyLines == LinesOf(Val(body))
MemberPositions == SelectSeq([i \in 1..Len(BodyLines) |-> i], LAMBDA i : IsMemberLine(BodyLines[i]))

\* the rendered lines between the member before member k and member k
BlockAbove(k) ==
    SubSeq(BodyLines, IF k = 1 THEN 1 ELSE MemberPositions[k - 1] + 1, MemberPositions[k] - 1)

\* the comment lines directly above line j since the last blank line
AllowedAbove(j) ==
    Cardinality({c \in 1..(j - 1) :
                    /\ Kind(input[c]) = "comment"
                    /\ \A b \in c..(j - 1) : Kind(input[b]) # "blank"})

\* C13: a comment line with a blank line between it and a declaration line is
\* not in that declaration's comment: the entry has no more comment lines than
\* there are comment lines after the last blank line, and its inline comment;
\* nor has its rendered block.
BlankLineCutsComments ==
    /\ Len(loop.entries) = Len(DeclarationLines)
    /\ \A k \in 1..Len(DeclarationLines) :
           LET j == DeclarationLines[k] IN
           /\ Len(EntryCommentLines(loop.entries[k]))
                  <= AllowedAbove(j) + Len(InlineLines(input[j]))
           /\ (pc = "rendered" /\ BlockAbove(k) # <<>>) =>
                  Len(BlockAbove(k)) - 2 <= AllowedAbove(j) + Len(InlineLines(input[j]))

\* the example: the second key is rendered with its inline comment alone
BlankGapRendered ==
    /\ pc = "rendered"
    /\ input = BlankGapInput
    /\ Len(loop.entries) = 2
    /\ loop.entries[1].comment # None
    /\ Len(EntryCommentLines(loop.entries[2])) = 1
    /\ Len(BlockAbove(2)) = 3

\* the comment a declaration line is to get: the comment lines directly above it,
\* then its inline comment
ExpectedComment(j) == CommentsAbove(j) \o InlineLines(input[j])

\* C14: a declaration line with an inline comment and N >= 0 comment lines
\* directly above it makes one entry whose comment is those N lines in order,
\* marker and at most one space dropped, then the inline comment; the rendered
\* block above its member has one line for each of them, in that order.
CommentsRoundTrip ==
    /\ Len(loop.entries) = Len(DeclarationLines)
    /\ \A k \in 1..Len(DeclarationLines) :
           LET j == DeclarationLines[k]
               expected == ExpectedComment(j)
           IN  InlineLines(input[j]) # <<>> =>
                   /\ EntryCommentLines(loop.entries[k]) = expected
                   /\ pc = "rendered" =>
                          BlockAbove(k) =
                              <<JSDocOpen>>
                              \o [n \in 1..Len(expected) |-> JSDocLine \o expected[n]]
                              \o <<JSDocClose>>

\* two comment lines and an inline comment, rendered as a block of three lines
ThreeLineBlockRendered ==
    /\ pc = "rendered"
    /\ input = <<LineComment, LineCommentSpaced, LineKeyInline>>
    /\ Len(loop.entries) = 1
    /\ EntryCommentLines(loop.entries[1]) = <<<<"h">>, <<" ", "k">>, <<"p">>>>
    /\ Len(BlockAbove(1)) = 5

RECURSIVE BufferedLines(_)
\* the comment lines the first k entries took from the buffer
BufferedLines(k) ==
    IF k = 0 THEN 0
    ELSE BufferedLines(k - 1)
         + Len(EntryCommentLines(loop.entries[k]))
         - Len(InlineLines(input[DeclarationLines[k]]))

ReadmeExampleRendered ==
    (/\ pc = "rendered"
     /\ input = ReadmeInput
     /\ ~options.disablePartialType
     /\ ~options.useValuesAsTypes) => Val(body) = ReadmeBody

\* a declaration line without its export prefix
Unexported(raw) ==
    LET text == Trim(raw) IN
    IF StartsWith(text, ExportPrefix)
    THEN SubSeq(text, Len(ExportPrefix) + 1, Len(text)) ELSE text

\* where the first "=" of a text is
FirstEquals(text) ==
    CHOOSE i \in 1..Len(text) : text[i] = "=" /\ \A h \in 1..(i - 1) : text[h] # "="

\* the text before the first "=" of a declaration line, trimmed
KeyText(raw) ==
    LET text == Unexported(raw) IN Trim(SubSeq(text, 1, FirstEquals(text) - 1))

\* C17: a declaration line makes exactly one entry, whose key is the trimmed text
\* before the first "=" of the line (the export prefix aside), however many "="
\* follow; in default mode it is rendered as one optional member of type string.
SplitAtFirstEquals ==
    /\ Len(loop.entries) = Len(DeclarationLines)
    /\ \A k \in 1..Len(DeclarationLines) :
           loop.entries[k].key = KeyText(input[DeclarationLines[k]])
    /\ (pc = "rendered" /\ ~options.disablePartialType) =>
           /\ Len(MemberPositions) = Len(DeclarationLines)
           /\ \A k \in 1..Len(DeclarationLines) :
                  BodyLines[MemberPositions[k]] =
                      MemberIndent \o KeyText(input[DeclarationLines[k]]) \o <<"?">>
                      \o StringType

\* a line with two "=" rendered as one member
ValueWithEqualsRendered ==
    /\ pc = "rendered"
    /\ input = <<LineKeyEquals>>
    /\ ~options.disablePartialType
    /\ Len(loop.entries) = 1
    /\ Val(body) = MemberIndent \o <<"C", "?">> \o StringType

\* C18: every rendered member line has the marker "?" when partial types are not
\* disabled and none has it when they are, below a block comment or not.
MarkerFollowsOption ==
    pc = "rendered" =>
        /\ Len(MemberPositions) = Len(loop.entries)
        /\ \A k \in 1..Len(MemberPositions) :
               Includes(BodyLines[MemberPositions[k]], "?") <=> ~options.disablePartialType

\* partial types disabled: a member below a block comment and one without
RenderedWithoutMarker ==
    /\ pc = "rendered"
    /\ options.disablePartialType
    /\ input = <<LineComment, LineKey, LineKeyEquals>>
    /\ BlockAbove(1) # <<>>
    /\ BlockAbove(2) = <<>>

\* the raw value of a declaration line: what follows the first "=", up to the
\* inline comment
RawValue(raw) ==
    LET text == Unexported(raw)
        value == SubSeq(text, FirstEquals(text) + 1, Len(text))
        hashes == {i \in 1..Len(value) : value[i] = "#"}
    IN  IF hashes = {} THEN Trim(value)
        ELSE Trim(SubSeq(value, 1, (CHOOSE i \in hashes : \A h \in hashes : i <= h) - 1))

\* C19 as stated: with useValuesAsTypes every member's type is its raw value as a
\* string literal, without it every member's type is string.
ValuesAreTypes ==
    pc = "rendered" =>
        /\ Len(MemberPositions) = Len(DeclarationLines)
        /\ \A k \in 1..Len(DeclarationLines) :
               IF options.useValuesAsTypes
               THEN EndsWith(BodyLines[MemberPositions[k]],
                             <<":", " ", "\"">> \o RawValue(input[DeclarationLines[k]])
                             \o <<"\"", ";">>)
               ELSE EndsWith(BodyLines[MemberPositions[k]], StringType)

\* ------------------------------------------------ the plugin constructed

\* an argument that carries an output path
HasOutputPath(arg) ==
    arg \in {a \in PluginArgs :
                a.kind # "undefined" /\ a.outputPath # None /\ a.outputPath # Some(<<>>)}

\* C20: new EnvTypesPlugin without an output path throws the configuration error
\* with no directory created, and a constructor that threw, for this or because
\* the output directory could not be made, leaves no plugin: apply() never runs
\* and the watch options stay as configured.
ConstructionFailsFast ==
    /\ (pc # "new" /\ ~HasOutputPath(ctor.arg)) =>
           /\ ctor.error = "ConfigError"
           /\ outDir = ctor.dirFound
    /\ (pc # "new" /\ ctor.error # "") =>
           /\ pc = "threw"
           /\ watchOptions = origWatchOptions
    /\ (pc # "new" /\ ctor.error = "") => (HasOutputPath(ctor.arg) /\ outDir)

\* the constructor threw for an options object without outputPath, no directory made
ThrewWithoutOutputPath ==
    /\ pc = "threw"
    /\ ctor.arg = [kind |-> "object", outputPath |-> None]
    /\ ctor.error = "ConfigError"
    /\ ~outDir

\* ------------------------------------------------- the declared options

\* C21: with silent set no operation emits an informational message (directory
\* created, types up to date, types generated); here for generate(): a call made
\* with silent set logs nothing.
SilentLogsNothing ==
    (gen.called /\ options.silent) => gen.log = <<>>

\* C25: the artifact generate() writes ends with the line "export {};" exactly if
\* addExportEnds is set; with the default, false, it has no such line.
ExportEndsFollowsOption ==
    (gen.called /\ gen.wrote /\ ~gen.dirty) =>
        ((\E i \in 1..Len(LinesOf(Val(outFile))) : LinesOf(Val(outFile))[i] = ExportEnds)
            <=> options.addExportEnds)

\* ------------------------------------------------ the generator process

\* C22: a generator process that found OUTPUT_PATH unset or empty, or none of its
\* candidates on disk, exits with a code other than zero and an error message, and
\* leaves the output file and its directory as they were.
MainFailsWithoutDestinationOrSource ==
    (child.state = "exited" /\ gen.called
        /\ (OrDefault(shellEnv.OUTPUT_PATH, <<>>) = <<>> \/ gen.noSource)) =>
        /\ child.code # 0
        /\ gen.error \in {"OUTPUT_PATH is required", "NoSourceFound"}
        /\ ~gen.ok /\ ~gen.wrote
        /\ ~gen.dirty => (outFile = gen.before /\ outDir = gen.dirBefore)

\* a run that found no candidate, with the artifact of an earlier run on disk
MainExitedWithoutSource ==
    /\ child = [state |-> "exited", code |-> 1]
    /\ shellEnv.OUTPUT_PATH = Some(OutputPath)
    /\ gen.noSource /\ gen.error = "NoSourceFound" /\ ~gen.dirty
    /\ outFile # None /\ StartsWith(Val(outFile), HeaderLine)

\* C28: a generation pass of the plugin leaves what generate() called directly
\* with the plugin's options would leave: the same outcome and the same output
\* file, for every configured candidate list.
PassEqualsDirectGenerate ==
    (pc = "compile" /\ gen.called /\ ~gen.dirty) =>
        LET direct == Generate(options, files, gen.before, gen.dirBefore, now, "none") IN
        /\ gen.ok = direct.ok
        /\ gen.error = direct.error
        /\ outFile = direct.out

\* --------------------------------- parseEnvFile's entries, continued

\* C23: every entry has a key that is not empty and has no white space at
\* either end, whatever the input.
KeysNonEmptyAndTrimmed ==
    \A k \in 1..Len(loop.entries) :
        LET key == loop.entries[k].key IN
        /\ key # <<>>
        /\ ~IsSpace(key[1])
        /\ ~IsSpace(key[Len(key)])

\* the keys of the declaration lines processed so far, in file order
DeclaredKeys ==
    [k \in 1..Len(DeclarationLines) |-> KeyText(input[DeclarationLines[k]])]

\* C24: the entries are the declaration lines, one each and in file order, and the
\* rendered members are the entries, one each and in that order; lines with the
\* same key are neither merged, dropped nor reordered.
OneEntryPerDeclarationInOrder ==
    /\ [k \in 1..Len(loop.entries) |-> loop.entries[k].key] = DeclaredKeys
    /\ pc = "rendered" =>
           [k \in 1..Len(MemberPositions) |-> MemberKey(BodyLines[MemberPositions[k]])]
               = DeclaredKeys

\* a key declared twice with another key between, rendered as three members
DuplicateKeysRendered ==
    /\ pc = "rendered"
    /\ input = <<LineKey, LineKeyInline, LineKey>>
    /\ Len(loop.entries) = 3
    /\ loop.entries[1].key = loop.entries[3].key
    /\ Len(MemberPositions) = 3

\* C26: the entries of an input are the entries of the same input with the export
\* prefix taken off its lines, keys and comments alike, and no key of a line that
\* had the prefix begins with it.
ExportPrefixIgnored ==
    /\ loop.entries =
           ParseLines([entries |-> <<>>, commentBuffer |-> <<>>],
                      [j \in 1..Processed |-> Unexported(input[j])]).entries
    /\ \A k \in 1..Len(DeclarationLines) :
           (/\ k <= Len(loop.entries)
            /\ StartsWith(Trim(input[DeclarationLines[k]]), ExportPrefix)) =>
               ~StartsWith(loop.entries[k].key, ExportPrefix)

\* "# h" then "export D=4": the key D with the comment h
ExportedKeyWithComment ==
    /\ pc = "rendered"
    /\ input = <<LineComment, LineExport>>
    /\ loop.entries = <<[key |-> <<"D">>, comment |-> Some(<<"h">>)]>>

\* the comment lines above line j with no line without "=" between them and j
CommentsSinceOther(j) ==
    Cardinality({c \in 1..(j - 1) :
                    /\ Kind(input[c]) = "comment"
                    /\ \A b \in c..(j - 1) : Kind(input[b]) # "other"})

\* C27: a line that is not blank, is no comment and has no "=" makes no entry and
\* no member, and leaves no pending comment: an entry has no more comment lines than
\* there are comment lines after the last such line, and its inline comment.
LineWithoutEqualsClearsComments ==
    /\ Len(loop.entries) = Cardinality({j \in 1..Processed : Kind(input[j]) = "declaration"})
    /\ (Processed > 0 /\ Kind(input[Processed]) = "other") => loop.commentBuffer = <<>>
    /\ \A k \in 1..Len(DeclarationLines) :
           k <= Len(loop.entries) =>
               Len(EntryCommentLines(loop.entries[k]))
                   <= CommentsSinceOther(DeclarationLines[k])
                          + Len(InlineLines(input[DeclarationLines[k]]))
    /\ pc = "rendered" =>
           Len(MemberPositions) = Len(input) - Cardinality({j \in 1..Len(input) :
                                                 Kind(input[j]) # "declaration"})

\* "# h", "note", "A=1": the key A without a comment
NoteBetweenCommentAndKey ==
    /\ pc = "rendered"
    /\ input = <<LineComment, LineNote, LineKey>>
    /\ loop.entries = <<[key |-> <<"A">>, comment |-> None]>>
    /\ Val(body) = MemberIndent \o <<"A">>
                   \o (IF options.disablePartialType THEN <<>> ELSE <<"?">>) \o StringType

\* ------------------------------------------- the two taps of an iteration

\* whether the changed-file set of a watchRun firing names a candidate
MatchedCandidate(modified) ==
    /\ modified # None
    /\ \E f \in Val(modified) : \E i \in 1..Len(options.envFiles) :
           SuffixOf(options.envFiles[i], f)

\* C29: in an iteration whose changed-file set names a candidate, watchRun has made
\* its pass and that pass is over when beforeCompile fires; beforeCompile makes the
\* second pass, with no generator process running beside it; and a second pass
\* that follows a pass that succeeded, with no file-system event between the two,
\* does not write and leaves the output file as the first pass left it.
TwoPassesOneAfterTheOther ==
    /\ (pc = "beforeCompile" /\ MatchedCandidate(hook.modified)) =>
           (hook.name = "watchRun" /\ hook.passes = 1 /\ child.state = "none")
    /\ hook.earlier =>
           /\ hook.name = "beforeCompile"
           /\ hook.passes = 1
           /\ child.state = "running" => pc = "beforeCompileWait"
    /\ (hook.earlier /\ pc \in BuildPcs /\ ~hook.failed /\ gen.clean) =>
           /\ ~gen.wrote
           /\ ~gen.dirty => outFile = gen.before

\* the host compiles after the second pass of an iteration, which wrote nothing
\* over the artifact the first pass had made of the edited source
SecondPassWroteNothing ==
    /\ pc = "compile"
    /\ builds = 2
    /\ hook.name = "beforeCompile" /\ hook.earlier /\ ~hook.failed
    /\ gen.called /\ gen.clean /\ ~gen.dirty /\ ~gen.wrote
    /\ outFile # None /\ outFile = hook.out
    /\ Len(MemberKeys(Val(outFile))) = 2

\* ------------------------------------- the output file after generate()

\* C30: right after a generate() that returned without an error, whatever source
\* edits, output edits and calls came before, the output file without its timestamp
\* line is the artifact rendered from the first candidate that exists, without its
\* timestamp line.
OutputIsFreshAfterGenerate ==
    (gen.called /\ gen.ok /\ ~gen.dirty) =>
        /\ outFile # None
        /\ WithoutTimestamp(Val(outFile)) = WithoutTimestamp(FreshArtifact)

\* a generate() that found a hand-edited output file and replaced it
RegeneratedOverEditedOutput ==
    /\ gen.called /\ gen.ok /\ ~gen.dirty
    /\ gen.before = Some(TextEdited)
    /\ gen.wrote
    /\ StartsWith(Val(outFile), HeaderLine)

====
